---- MODULE Spec2Model ----
(***************************************************************************)
(* A model of torch/_inductor/runtime/triton_bundler.py: the class-level   *)
(* registry TritonBundler._entries, the operations begin_compile, put,     *)
(* collect and write_bundle_to_file_system, and the parts of the process   *)
(* environment they read or write: the inductor config flag, the           *)
(* TRITON_CACHE_DIR environment variable and the file system.              *)
(*                                                                         *)
(* A path is a sequence of path components.  The file system is a function *)
(* from the paths that exist to their nodes.  Every operation of the class *)
(* is one atomic action (Spec); put is split into its three reads and      *)
(* writes of shared state where workers run it concurrently (SpecWorkers). *)
(* SpecReplay writes one bundle onto empty and occupied file systems,      *)
(* SpecRoundTrip writes a bundle and collects it again, SpecHistory keeps  *)
(* the history of the episodes, SpecFrame runs the registry and the writer *)
(* together, and SpecEnabled calls is_enabled in both builds.              *)
(***************************************************************************)
EXTENDS Integers, Sequences, FiniteSets, TLC

\* ------------------------------------------------------------------------
\* Input domains and bounds
\* ------------------------------------------------------------------------

KernelHashes == {"h1", "h2"}

Devices == {0, 1}

\* The values TRITON_CACHE_DIR takes when it is set.
CacheDirs == {<<"dA">>, <<"dB">>}

FileNames == {"f1", "f2"}

Payloads == {"x", "y"}

\* The registry holds at most MaxEntries entries (guard of put).
MaxEntries == 2

\* The number of threads that call put concurrently.
NumWorkers == 2

\* A bundle holds at most MaxBundleLen groups.
MaxBundleLen == 2

VARIABLES
    config,     \* config.bundle_triton_into_fx_graph_cache: "None", "True", "False"
    fbcode,     \* config.is_fbcode()
    environ,    \* os.environ, restricted to TRITON_CACHE_DIR
    _entries,   \* TritonBundler._entries
    fs,         \* the file system: path -> node
    last,       \* the most recent call of a TritonBundler operation
    workers,    \* the threads that run put: where each is in it, and its locals
    episode,    \* history of the episode in progress: the entries whose put
                \* has returned, whether two puts ran at the same time, and
                \* the entries put since the last begin_compile that returned
    replay      \* the bundle handed to write_bundle_to_file_system, and the
                \* file system and environment it was written under

vars == <<config, fbcode, environ, _entries, fs, last, workers, episode, replay>>

\* ------------------------------------------------------------------------
\* Values
\* ------------------------------------------------------------------------

\* Optional[Dict[TritonBundleEntry, None]]: None, or a dict whose keys are
\* kept in insertion order.
None == [tag |-> "None"]

Dict(keys) == [tag |-> "dict", keys |-> keys]

\* The registry is Active.
Active(entries) == entries # None

TritonBundleEntry(kernel_hash, device, directory) ==
    [kernel_hash |-> kernel_hash, device |-> device, directory |-> directory]

TritonKernelArtifact(filename, payload) ==
    [filename |-> filename, payload |-> payload]

TritonKernelArtifacts(kernel_hash, device, artifacts) ==
    [kernel_hash |-> kernel_hash, device |-> device, artifacts |-> artifacts]

Entries ==
    {TritonBundleEntry(h, d, c) : h \in KernelHashes, d \in Devices, c \in CacheDirs}

\* ------------------------------------------------------------------------
\* The file system
\* ------------------------------------------------------------------------

DirNode == [kind |-> "dir", payload |-> "", readable |-> TRUE]

\* A regular file; readable = FALSE: opening it for reading fails (a file
\* without read permission), writing it does not.
FileNode(payload, readable) ==
    [kind |-> "file", payload |-> payload, readable |-> readable]

EmptyFs == [p \in {} |-> DirNode]

\* os.path.join(a, b) for a relative, single-component b
join(a, b) == Append(a, b)

\* The proper prefixes of a path: its parent, grandparent, ...
Ancestors(path) == {SubSeq(path, 1, k) : k \in 1..(Len(path) - 1)}

\* os.path.exists
exists(f, path) == path \in DOMAIN f

\* os.path.isfile
isfile(f, path) == path \in DOMAIN f /\ f[path].kind = "file"

\* Path.is_dir
isdir(f, path) == path \in DOMAIN f /\ f[path].kind = "dir"

\* The orders in which os.listdir may return the children of a directory.
ListOrders ==
    {o \in [1..Cardinality(FileNames) -> FileNames] :
        \A i, j \in DOMAIN o : i # j => o[i] # o[j]}

\* os.listdir(path) of a directory, its children in the order `order`.
listdir(f, path, order) ==
    SelectSeq(order, LAMBDA n : join(path, n) \in DOMAIN f)

\* ------------------------------------------------------------------------
\* is_enabled
\* ------------------------------------------------------------------------

\* Mutant: the build is tested before the config flag.
is_enabled_fbcode_first(justknobs) ==
    IF ~fbcode THEN FALSE
    ELSE IF config # "None" THEN config = "True"
    ELSE justknobs

\* justknobs is the answer of torch._utils_internal.justknobs_check, read
\* only when the config flag is None and the build is fbcode.
is_enabled(justknobs) ==
    IF config # "None" THEN config = "True"
    ELSE IF ~fbcode THEN FALSE
    ELSE justknobs

\* The answers the justknobs service may give to a call of is_enabled(), or
\* FALSE alone when the call does not reach the service.
JustKnobs == IF config = "None" /\ fbcode THEN BOOLEAN ELSE {FALSE}

\* ------------------------------------------------------------------------
\* The record of the most recent call
\* ------------------------------------------------------------------------

Call(op, raised, enabled, pre, arg, ret) ==
    [op |-> op, raised |-> raised, enabled |-> enabled, pre |-> pre,
     arg |-> arg, ret |-> ret]

NoCall == Call("none", FALSE, FALSE, None, <<>>, <<>>)

\* ------------------------------------------------------------------------
\* begin_compile
\* ------------------------------------------------------------------------

\* Mutant: the assert is missing, an active registry is overwritten.
begin_compile_overwrite(enabled, entries) ==
    IF ~enabled THEN [raised |-> FALSE, entries |-> entries]
    ELSE [raised |-> FALSE, entries |-> Dict(<<>>)]

\* Mutant: an episode in progress is continued, not refused.
begin_compile_continue(enabled, entries) ==
    IF ~enabled THEN [raised |-> FALSE, entries |-> entries]
    ELSE [raised |-> FALSE,
          entries |-> IF entries # None THEN entries ELSE Dict(<<>>)]

\* Mutant: the assert comes before the test of is_enabled().
begin_compile_assert_first(enabled, entries) ==
    IF entries # None THEN [raised |-> TRUE, entries |-> entries]
    ELSE IF ~enabled THEN [raised |-> FALSE, entries |-> entries]
    ELSE [raised |-> FALSE, entries |-> Dict(<<>>)]

\* begin_compile() on registry `entries` when is_enabled() returns
\* `enabled`: whether it raises, and the registry it leaves.
begin_compile(enabled, entries) ==
    IF ~enabled THEN [raised |-> FALSE, entries |-> entries]
    ELSE IF entries # None
    THEN \* assert cls._entries is None
         [raised |-> TRUE, entries |-> entries]
    ELSE [raised |-> FALSE, entries |-> Dict(<<>>)]

BeginCompile ==
    \E justknobs \in JustKnobs :
        LET enabled == is_enabled(justknobs)
            r == begin_compile(enabled, _entries)
        IN  /\ _entries' = r.entries
            /\ last' = Call("begin_compile", r.raised, enabled, _entries, <<>>, <<>>)
            /\ UNCHANGED <<config, fbcode, environ, fs>>

\* ------------------------------------------------------------------------
\* put
\* ------------------------------------------------------------------------

Range(s) == {s[i] : i \in DOMAIN s}

\* Mutant: a list instead of a dict, every insertion appends.
DictSetItem_append(keys, key) == Append(keys, key)

\* Mutant: entries are hashed and compared by kernel_hash alone.
DictSetItem_by_hash(keys, key) ==
    IF \E k \in Range(keys) : k.kernel_hash = key.kernel_hash
    THEN keys ELSE Append(keys, key)

\* Mutant: a key already present is moved to the end of the insertion order.
DictSetItem_move_to_end(keys, key) ==
    Append(SelectSeq(keys, LAMBDA k : k # key), key)

\* entries[key] = None on a dict: a key already present keeps its place,
\* a new key is appended to the insertion order.
DictSetItem(keys, key) ==
    IF key \in Range(keys) THEN keys ELSE Append(keys, key)

\* os.getenv("TRITON_CACHE_DIR") is not None
HasCacheDir(env) == "TRITON_CACHE_DIR" \in DOMAIN env

\* Mutant: the assert is missing, the entry is inserted with no directory.
put_no_assert(entries, env, kernel_hash, device) ==
    IF entries = None THEN [raised |-> FALSE, entries |-> entries]
    ELSE LET triton_cache_dir ==
                 IF HasCacheDir(env) THEN env["TRITON_CACHE_DIR"] ELSE <<>>
             entry == TritonBundleEntry(kernel_hash, device, triton_cache_dir)
         IN  [raised |-> FALSE, entries |-> Dict(DictSetItem(entries.keys, entry))]

\* Mutant: put starts an episode when none is in progress.
put_begins_episode(entries, env, kernel_hash, device) ==
    IF ~HasCacheDir(env) THEN [raised |-> entries # None, entries |-> entries]
    ELSE LET triton_cache_dir == env["TRITON_CACHE_DIR"]
             entry == TritonBundleEntry(kernel_hash, device, triton_cache_dir)
             keys == IF entries = None THEN <<>> ELSE entries.keys
         IN  [raised |-> FALSE, entries |-> Dict(DictSetItem(keys, entry))]

\* put(kernel_hash, device) on registry `entries` under environment `env`:
\* whether it raises, and the registry it leaves.
put(entries, env, kernel_hash, device) ==
    IF entries = None THEN [raised |-> FALSE, entries |-> entries]
    ELSE IF ~HasCacheDir(env)
    THEN \* assert triton_cache_dir is not None
         [raised |-> TRUE, entries |-> entries]
    ELSE LET triton_cache_dir == env["TRITON_CACHE_DIR"]
             entry == TritonBundleEntry(kernel_hash, device, triton_cache_dir)
         IN  [raised |-> FALSE, entries |-> Dict(DictSetItem(entries.keys, entry))]

\* The registry stays within the bound of the model.
WithinBound(entries) ==
    IF entries = None THEN TRUE ELSE Len(entries.keys) <= MaxEntries

Put(kernel_hash, device) ==
    LET r == put(_entries, environ, kernel_hash, device) IN
    /\ WithinBound(r.entries)
    /\ _entries' = r.entries
    /\ last' = Call("put", r.raised, FALSE, _entries, <<kernel_hash, device>>, <<>>)
    /\ UNCHANGED <<config, fbcode, environ, fs>>

\* ------------------------------------------------------------------------
\* collect
\* ------------------------------------------------------------------------

\* The body of the try statement for one child of an entry's directory:
\* the artifacts it appends (none when the assert or the read raises).
TryCollectFile(f, path, filename) ==
    LET filepath == join(path, filename) IN
    IF isfile(f, filepath) /\ f[filepath].readable
    THEN <<TritonKernelArtifact(filename, f[filepath].payload)>>
    ELSE <<>>

RECURSIVE CollectFiles_abort(_, _, _)
\* Mutant: the try statement encloses the loop, the first failure ends it.
CollectFiles_abort(f, path, filenames) ==
    IF filenames = <<>> THEN <<>>
    ELSE IF TryCollectFile(f, path, Head(filenames)) = <<>> THEN <<>>
    ELSE TryCollectFile(f, path, Head(filenames))
            \o CollectFiles_abort(f, path, Tail(filenames))

RECURSIVE CollectFiles(_, _, _)
\* for filename in os.listdir(path): try: ... except Exception: log.debug(...)
CollectFiles(f, path, filenames) ==
    IF filenames = <<>> THEN <<>>
    ELSE TryCollectFile(f, path, Head(filenames))
            \o CollectFiles(f, path, Tail(filenames))

\* if artifacts: result.append(TritonKernelArtifacts(...))
AppendGroup(entry, artifacts) ==
    IF artifacts # <<>>
    THEN <<TritonKernelArtifacts(entry.kernel_hash, entry.device, artifacts)>>
    ELSE <<>>

\* path = os.path.join(entry.directory, entry.kernel_hash)
EntryPath(entry) == join(entry.directory, entry.kernel_hash)

RECURSIVE CollectEntries(_, _, _, _)
\* for entry in entries.keys(): ..., from the i-th key on.  os.listdir of a
\* path that exists and is no directory raises outside the try statement
\* and ends the loop and the call.
CollectEntries(f, keys, orders, i) ==
    IF i > Len(keys) THEN [raised |-> FALSE, result |-> <<>>]
    ELSE LET entry == keys[i]
             path == EntryPath(entry)
         IN  IF ~exists(f, path) THEN CollectEntries(f, keys, orders, i + 1)
             ELSE IF ~isdir(f, path) THEN [raised |-> TRUE, result |-> <<>>]
             ELSE LET artifacts == CollectFiles(f, path, listdir(f, path, orders[i]))
                      rest == CollectEntries(f, keys, orders, i + 1)
                  IN  IF rest.raised THEN rest
                      ELSE [raised |-> FALSE,
                            result |-> AppendGroup(entry, artifacts) \o rest.result]

\* Mutant: a disabled collect returns without resetting the registry.
collect_no_reset(enabled, entries, f, orders) ==
    IF ~enabled \/ entries = None
    THEN [raised |-> FALSE, entries |-> entries, ret |-> <<>>]
    ELSE LET r == CollectEntries(f, entries.keys, orders, 1) IN
         IF r.raised THEN [raised |-> TRUE, entries |-> entries, ret |-> <<>>]
         ELSE [raised |-> FALSE, entries |-> None, ret |-> r.result]

\* collect() on registry `entries` and file system f when is_enabled()
\* returns `enabled` and os.listdir lists the directory of the i-th entry in
\* the order orders[i]: whether it raises, the registry it leaves and the
\* list it returns.
collect(enabled, entries, f, orders) ==
    IF ~enabled THEN [raised |-> FALSE, entries |-> None, ret |-> <<>>]
    ELSE IF entries = None THEN [raised |-> FALSE, entries |-> entries, ret |-> <<>>]
    ELSE LET r == CollectEntries(f, entries.keys, orders, 1) IN
         IF r.raised THEN [raised |-> TRUE, entries |-> entries, ret |-> <<>>]
         ELSE [raised |-> FALSE, entries |-> None, ret |-> r.result]

\* Mutant: collect removes the files of the entries it has read.
Collect_removes_files ==
    \E justknobs \in JustKnobs :
        LET enabled == is_enabled(justknobs)
            n == IF enabled /\ Active(_entries) THEN Len(_entries.keys) ELSE 0
        IN  \E orders \in [1..n -> ListOrders] :
                LET r == collect(enabled, _entries, fs, orders)
                    read == {join(EntryPath(_entries.keys[i]), name) :
                                i \in 1..n, name \in FileNames}
                IN  /\ _entries' = r.entries
                    /\ last' = Call("collect", r.raised, enabled, _entries, <<>>, r.ret)
                    /\ fs' = [p \in DOMAIN fs \ {q \in read : isfile(fs, q)} |-> fs[p]]
                    /\ UNCHANGED <<config, fbcode, environ>>

Collect ==
    \E justknobs \in JustKnobs :
        LET enabled == is_enabled(justknobs)
            n == IF enabled /\ Active(_entries) THEN Len(_entries.keys) ELSE 0
        IN  \E orders \in [1..n -> ListOrders] :
                LET r == collect(enabled, _entries, fs, orders) IN
                /\ _entries' = r.entries
                /\ last' = Call("collect", r.raised, enabled, _entries, <<>>, r.ret)
                /\ UNCHANGED <<config, fbcode, environ, fs>>

\* ------------------------------------------------------------------------
\* write_bundle_to_file_system
\* ------------------------------------------------------------------------

\* cache_dir() of runtime_utils, the default cache root
cache_dir == <<"root">>

\* str(artifacts.device)
str(device) == ToString(device)

\* Path(directory).mkdir(parents=True, exist_ok=True): whether it raises (a
\* prefix of the path exists and is no directory), and the file system it
\* leaves.
mkdir(f, directory) ==
    LET prefixes == Ancestors(directory) \cup {directory} IN
    IF \E p \in prefixes : exists(f, p) /\ ~isdir(f, p)
    THEN [raised |-> TRUE, fs |-> f]
    ELSE [raised |-> FALSE, fs |-> [p \in prefixes \ DOMAIN f |-> DirNode] @@ f]

\* Mutant: a file that exists is not written again.
write_file_keep_existing(f, filepath, payload) ==
    IF isdir(f, filepath) THEN [raised |-> TRUE, fs |-> f]
    ELSE IF exists(f, filepath) THEN [raised |-> FALSE, fs |-> f]
    ELSE [raised |-> FALSE, fs |-> (filepath :> FileNode(payload, TRUE)) @@ f]

\* with open(filepath, "wb") as file: file.write(artifact.payload): whether
\* it raises (the path is a directory), and the file system it leaves.
write_file(f, filepath, payload) ==
    IF isdir(f, filepath) THEN [raised |-> TRUE, fs |-> f]
    ELSE [raised |-> FALSE,
          fs |-> (filepath :> FileNode(payload,
                        IF exists(f, filepath) THEN f[filepath].readable ELSE TRUE))
                    @@ f]

RECURSIVE WriteArtifacts_continue(_, _, _)
\* Mutant: an artifact that cannot be written is skipped.
WriteArtifacts_continue(f, directory, artifacts) ==
    IF artifacts = <<>> THEN [raised |-> FALSE, fs |-> f]
    ELSE LET artifact == Head(artifacts)
             w == write_file(f, join(directory, artifact.filename), artifact.payload)
         IN  WriteArtifacts_continue(w.fs, directory, Tail(artifacts))

RECURSIVE WriteArtifacts(_, _, _)
\* for artifact in artifacts.artifacts: ...; the first failure ends the call.
WriteArtifacts(f, directory, artifacts) ==
    IF artifacts = <<>> THEN [raised |-> FALSE, fs |-> f]
    ELSE LET artifact == Head(artifacts)
             w == write_file(f, join(directory, artifact.filename), artifact.payload)
         IN  IF w.raised THEN w
             ELSE WriteArtifacts(w.fs, directory, Tail(artifacts))

\* Mutant: kernels are never separated by device.
GroupDirectory_never_device(basedir, custom_dir, artifacts) ==
    join(basedir, artifacts.kernel_hash)

\* Mutant: kernels are separated by device under a custom directory too.
GroupDirectory_always_device(basedir, custom_dir, artifacts) ==
    join(join(basedir, artifacts.kernel_hash), str(artifacts.device))

\* directory = os.path.join(basedir, artifacts.kernel_hash), and the device
\* below it when no custom cache directory is set
GroupDirectory(basedir, custom_dir, artifacts) ==
    LET directory == join(basedir, artifacts.kernel_hash) IN
    IF ~custom_dir THEN join(directory, str(artifacts.device)) ELSE directory

RECURSIVE WriteGroups(_, _, _, _)
\* for artifacts in bundle: ...; the first failure ends the call.
WriteGroups(f, basedir, custom_dir, bundle) ==
    IF bundle = <<>> THEN [raised |-> FALSE, fs |-> f]
    ELSE LET directory == GroupDirectory(basedir, custom_dir, Head(bundle))
             m == mkdir(f, directory)
         IN  IF m.raised THEN m
             ELSE LET w == WriteArtifacts(m.fs, directory, Head(bundle).artifacts)
                  IN  IF w.raised THEN w
                      ELSE WriteGroups(w.fs, basedir, custom_dir, Tail(bundle))

\* Mutant: the test of is_enabled() is missing.
write_bundle_unguarded(enabled, env, f, bundle) ==
    LET custom_dir == HasCacheDir(env)
        basedir == IF custom_dir THEN env["TRITON_CACHE_DIR"]
                   ELSE join(cache_dir, "triton")
    IN  WriteGroups(f, basedir, custom_dir, bundle)

\* write_bundle_to_file_system(bundle) on file system f under environment
\* `env` when is_enabled() returns `enabled`: whether it raises, and the
\* file system it leaves.
write_bundle_to_file_system(enabled, env, f, bundle) ==
    IF ~enabled THEN [raised |-> FALSE, fs |-> f]
    ELSE LET custom_dir == HasCacheDir(env)
             basedir == IF custom_dir THEN env["TRITON_CACHE_DIR"]
                        ELSE join(cache_dir, "triton")
         IN  WriteGroups(f, basedir, custom_dir, bundle)

\* The caller writes the bundle it holds.
WriteBundle ==
    /\ ~replay.written
    /\ \E justknobs \in JustKnobs :
        LET enabled == is_enabled(justknobs)
            r == write_bundle_to_file_system(enabled, environ, fs, replay.bundle)
        IN  /\ fs' = r.fs
            /\ last' = Call("write_bundle", r.raised, enabled, _entries, <<>>, <<>>)
    /\ replay' = [replay EXCEPT !.fs = fs, !.environ = environ, !.written = TRUE]
    /\ UNCHANGED <<config, fbcode, environ, _entries, workers, episode>>

\* ------------------------------------------------------------------------
\* The environment of the class
\* ------------------------------------------------------------------------

NoEnviron == [n \in {} |-> <<>>]

Environs == {NoEnviron} \cup {[n \in {"TRITON_CACHE_DIR"} |-> c] : c \in CacheDirs}

\* os.environ["TRITON_CACHE_DIR"] is set or deleted by the caller.
SetEnv(e) ==
    /\ e # environ
    /\ environ' = e
    /\ last' = NoCall
    /\ UNCHANGED <<config, fbcode, _entries, fs>>

\* config.bundle_triton_into_fx_graph_cache is set by the caller.
SetConfig(c) ==
    /\ c # config
    /\ config' = c
    /\ last' = NoCall
    /\ UNCHANGED <<fbcode, environ, _entries, fs>>

\* ------------------------------------------------------------------------
\* Initial file systems
\* ------------------------------------------------------------------------

ChildKinds == {"absent", "file", "locked", "dir"}

NoKids == [n \in FileNames |-> "absent"]

KidShapes == {k \in [FileNames -> ChildKinds] : k["f2"] \in {"absent", "file"}}

\* What stands at an entry's path directory/kernel_hash: nothing, a regular
\* file, or a directory with children.
TreeShapes ==
    {[top |-> "absent", kids |-> NoKids], [top |-> "file", kids |-> NoKids]}
        \cup {[top |-> "dir", kids |-> k] : k \in KidShapes}

InitPayload(name) == IF name = "f1" THEN "x" ELSE "y"

KidNode(kind, name) ==
    IF kind = "dir" THEN DirNode
    ELSE FileNode(InitPayload(name), kind = "file")

Tree(path, shape) ==
    IF shape.top = "absent" THEN EmptyFs
    ELSE IF shape.top = "file"
    THEN [p \in Ancestors(path) |-> DirNode] @@ (path :> FileNode("x", TRUE))
    ELSE [p \in Ancestors(path) \cup {path} |-> DirNode]
         @@ [p \in {join(path, n) : n \in {m \in FileNames : shape.kids[m] # "absent"}}
                |-> KidNode(shape.kids[p[Len(p)]], p[Len(p)])]

\* A directory with one readable file.
PlainShape ==
    [top |-> "dir", kids |-> [n \in FileNames |-> IF n = "f2" THEN "file" ELSE "absent"]]

\* The entry paths that hold something before the first call, and what
\* each may hold: anything at dA/h1, a directory with a readable file at
\* dA/h2; nothing exists below dB.
InitRoots == {join(<<"dA">>, h) : h \in KernelHashes}

InitShapes(root) == IF root = <<"dA", "h1">> THEN TreeShapes ELSE {PlainShape}

Forest(shapes) ==
    LET dom == UNION {DOMAIN Tree(r, shapes[r]) : r \in InitRoots} IN
    [p \in dom |-> Tree(CHOOSE r \in InitRoots : p \in DOMAIN Tree(r, shapes[r]),
                        shapes[CHOOSE r \in InitRoots : p \in DOMAIN Tree(r, shapes[r])])[p]]

InitFileSystems ==
    {Forest(shapes) :
        shapes \in {a \in [InitRoots -> TreeShapes] : \A r \in InitRoots : a[r] \in InitShapes(r)}}

\* ------------------------------------------------------------------------
\* Specification of the sequential interface
\* ------------------------------------------------------------------------

Workers == 1..NumWorkers

Idle == [pc |-> "idle", kernel_hash |-> "", device |-> 0, directory |-> <<>>]

NoEpisode == [puts |-> {}, overlapped |-> FALSE, since_begin |-> {}]

NoReplay == [bundle |-> <<>>, fs |-> EmptyFs, environ |-> NoEnviron, written |-> TRUE]

\* A call made by the one thread of the sequential interface.
Sequential(call) == call /\ UNCHANGED <<workers, episode, replay>>

Init ==
    /\ config \in {"None", "True", "False"}
    /\ fbcode = TRUE
    /\ environ \in Environs
    /\ _entries = None
    /\ fs \in InitFileSystems
    /\ last = NoCall
    /\ workers = [w \in Workers |-> Idle]
    /\ episode = NoEpisode
    /\ replay = NoReplay

Next ==
    \/ Sequential(BeginCompile)
    \/ \E kernel_hash \in KernelHashes, device \in Devices :
            Sequential(Put(kernel_hash, device))
    \/ Sequential(Collect)
    \/ \E e \in Environs : Sequential(SetEnv(e))
    \/ \E c \in {"None", "True", "False"} : Sequential(SetConfig(c))

Spec == Init /\ [][Next]_vars

\* ------------------------------------------------------------------------
\* Specification of concurrent puts within an episode
\* ------------------------------------------------------------------------
\* Each worker runs put in three steps, one for each access to state shared
\* between threads: the read of cls._entries, the read of the environment,
\* and the insertion into the dict.  begin_compile and collect run only when
\* no put is in progress (the barrier their callers keep).

AllIdle == \A w \in Workers : workers[w].pc = "idle"

InFlight == {w \in Workers : workers[w].pc # "idle"}

\* if (entries := cls._entries) is not None:
PutRead(w, kernel_hash, device) ==
    /\ workers[w].pc = "idle"
    /\ Active(_entries)
    /\ Len(_entries.keys) + Cardinality(InFlight) < MaxEntries
    /\ workers' = [workers EXCEPT ![w] =
            [pc |-> "getenv", kernel_hash |-> kernel_hash, device |-> device,
             directory |-> <<>>]]
    /\ episode' = [episode EXCEPT !.overlapped = @ \/ InFlight # {}]
    /\ UNCHANGED <<config, fbcode, environ, _entries, fs, last, replay>>

\* triton_cache_dir = os.getenv("TRITON_CACHE_DIR"); assert ... is not None
PutGetenv(w) ==
    /\ workers[w].pc = "getenv"
    /\ workers' = [workers EXCEPT ![w] =
            IF HasCacheDir(environ)
            THEN [@ EXCEPT !.pc = "insert", !.directory = environ["TRITON_CACHE_DIR"]]
            ELSE Idle]
    /\ UNCHANGED <<config, fbcode, environ, _entries, fs, last, episode, replay>>

\* entries[TritonBundleEntry(kernel_hash, device, triton_cache_dir)] = None
PutInsert(w) ==
    /\ workers[w].pc = "insert"
    /\ LET entry == TritonBundleEntry(workers[w].kernel_hash, workers[w].device,
                                      workers[w].directory)
       IN  /\ _entries' = Dict(DictSetItem(_entries.keys, entry))
           /\ episode' = [episode EXCEPT !.puts = @ \cup {entry}]
    /\ workers' = [workers EXCEPT ![w] = Idle]
    /\ UNCHANGED <<config, fbcode, environ, fs, last, replay>>

\* begin_compile, called when no put is in progress
EpisodeBegin ==
    /\ AllIdle
    /\ BeginCompile
    /\ episode' = IF _entries' = _entries THEN episode ELSE NoEpisode
    /\ UNCHANGED <<workers, replay>>

\* collect, called when no put is in progress
EpisodeCollect ==
    /\ AllIdle
    /\ Collect
    /\ episode' = IF _entries' = _entries THEN episode ELSE NoEpisode
    /\ UNCHANGED <<workers, replay>>

InitWorkers ==
    /\ config = "True"
    /\ fbcode = TRUE
    /\ environ \in Environs
    /\ _entries = None
    /\ fs = EmptyFs
    /\ last = NoCall
    /\ workers = [w \in Workers |-> Idle]
    /\ episode = NoEpisode
    /\ replay = NoReplay

NextWorkers ==
    \/ EpisodeBegin
    \/ EpisodeCollect
    \/ \E w \in Workers, kernel_hash \in KernelHashes, device \in Devices :
            PutRead(w, kernel_hash, device)
    \/ \E w \in Workers : PutGetenv(w)
    \/ \E w \in Workers : PutInsert(w)
    \/ \E e \in Environs : Sequential(SetEnv(e))

SpecWorkers == InitWorkers /\ [][NextWorkers]_vars

\* ------------------------------------------------------------------------
\* Specification of the replay of a bundle
\* ------------------------------------------------------------------------
\* A caller holds a bundle and writes it, once, onto a file system that is
\* empty or already holds something at the paths the bundle is written to,
\* under every setting of the config flag and of the cache directory.

Artifacts == {TritonKernelArtifact(n, p) : n \in FileNames, p \in Payloads}

\* The artifact lists of a group: none, one artifact named f1, or two
\* artifacts with different or with the same filename.
ArtifactLists ==
    {<<>>} \cup {<<a>> : a \in {b \in Artifacts : b.filename = "f1"}}
        \cup {<<TritonKernelArtifact("f1", "x"), TritonKernelArtifact("f2", "y")>>,
              <<TritonKernelArtifact("f1", "x"), TritonKernelArtifact("f1", "y")>>}

Groups ==
    {TritonKernelArtifacts(h, d, l) :
        h \in KernelHashes, d \in Devices, l \in ArtifactLists}

Bundles == UNION {[1..n -> Groups] : n \in 0..MaxBundleLen}

\* The node at dA/h1 and at root/triton/h1/0, the directories a group of
\* kernel h1 and device 0 is written to.
Occupied(node, kid) ==
    LET targets == {<<"dA", "h1">>, <<"root", "triton", "h1", "0">>}
        above == UNION {Ancestors(t) : t \in targets}
    IN  [p \in above |-> DirNode] @@ [p \in targets |-> node]
            @@ [p \in {join(t, "f1") : t \in IF node = DirNode THEN targets ELSE {}}
                    |-> kid]

ReplayFileSystems ==
    {EmptyFs,
     Occupied(FileNode("x", TRUE), DirNode),    \* a file in place of the directory
     Occupied(DirNode, FileNode("y", TRUE)),    \* a file the bundle overwrites
     Occupied(DirNode, DirNode)}                \* a directory in place of a file

InitReplay ==
    /\ config \in {"None", "True", "False"}
    /\ fbcode = TRUE
    /\ environ \in Environs
    /\ _entries = None
    /\ fs \in ReplayFileSystems
    /\ last = NoCall
    /\ workers = [w \in Workers |-> Idle]
    /\ episode = NoEpisode
    /\ replay \in {[bundle |-> b, fs |-> EmptyFs, environ |-> NoEnviron,
                     written |-> FALSE] : b \in Bundles}

NextReplay == WriteBundle

SpecReplay == InitReplay /\ [][NextReplay]_vars

\* ------------------------------------------------------------------------
\* Specification of the round trip of a bundle
\* ------------------------------------------------------------------------
\* A caller writes a bundle onto an empty file system, with TRITON_CACHE_DIR
\* set or not, begins an episode, puts for each group an entry whose path
\* directory/kernel_hash is the directory the group was written to, in any
\* order, and collects.

\* The artifact lists collect can return: not empty, no filename twice.
RoundTripLists ==
    {<<TritonKernelArtifact("f1", "x")>>, <<TritonKernelArtifact("f2", "y")>>,
     <<TritonKernelArtifact("f1", "y"), TritonKernelArtifact("f2", "x")>>}

RoundTripGroups ==
    {TritonKernelArtifacts(h, d, l) :
        h \in KernelHashes, d \in Devices, l \in RoundTripLists}

\* The bundles of groups of different kernels: no two groups are written to
\* the same directory, with TRITON_CACHE_DIR set or not.
RoundTripBundles ==
    {b \in UNION {[1..n -> RoundTripGroups] : n \in 0..MaxBundleLen} :
        \A i, j \in DOMAIN b : i # j => b[i].kernel_hash # b[j].kernel_hash}

\* The directory write_bundle_to_file_system makes for a group under
\* environment env.
WrittenDirectory(env, group) ==
    LET custom_dir == HasCacheDir(env)
        basedir == IF custom_dir THEN env["TRITON_CACHE_DIR"]
                   ELSE join(cache_dir, "triton")
    IN  GroupDirectory(basedir, custom_dir, group)

\* The entry of the group's device whose path is the group's directory.
PointingEntry(env, group) ==
    LET directory == WrittenDirectory(env, group) IN
    TritonBundleEntry(directory[Len(directory)], group.device,
                      SubSeq(directory, 1, Len(directory) - 1))

PointingEntries ==
    {PointingEntry(replay.environ, replay.bundle[i]) : i \in DOMAIN replay.bundle}

\* The first arguments of put: kernel hashes, and the names of the device
\* directories.
RoundTripHashes == KernelHashes \cup {str(d) : d \in Devices}

RoundTripBegin ==
    /\ replay.written
    /\ last.op = "write_bundle"
    /\ Sequential(BeginCompile)

RoundTripSetEnv ==
    /\ replay.written
    /\ Active(_entries)
    /\ \E entry \in PointingEntries :
            Sequential(SetEnv([n \in {"TRITON_CACHE_DIR"} |-> entry.directory]))

RoundTripPut ==
    /\ replay.written
    /\ Active(_entries)
    /\ HasCacheDir(environ)
    /\ \E kernel_hash \in RoundTripHashes, device \in Devices :
            /\ TritonBundleEntry(kernel_hash, device, environ["TRITON_CACHE_DIR"])
                    \in PointingEntries
            /\ Sequential(Put(kernel_hash, device))

RoundTripCollect ==
    /\ replay.written
    /\ Active(_entries)
    /\ Sequential(Collect)

InitRoundTrip ==
    /\ config = "True"
    /\ fbcode = TRUE
    /\ environ \in {NoEnviron, [n \in {"TRITON_CACHE_DIR"} |-> <<"dA">>]}
    /\ _entries = None
    /\ fs = EmptyFs
    /\ last = NoCall
    /\ workers = [w \in Workers |-> Idle]
    /\ episode = NoEpisode
    /\ replay \in {[bundle |-> b, fs |-> EmptyFs, environ |-> NoEnviron,
                     written |-> FALSE] : b \in RoundTripBundles}

NextRoundTrip ==
    \/ WriteBundle
    \/ RoundTripBegin
    \/ RoundTripSetEnv
    \/ RoundTripPut
    \/ RoundTripCollect

SpecRoundTrip == InitRoundTrip /\ [][NextRoundTrip]_vars

\* ------------------------------------------------------------------------
\* Specification of the episodes of one thread, with their history
\* ------------------------------------------------------------------------
\* The calls of the sequential interface, each recording what the history
\* of the episode needs: episode.puts holds the entries registered since the
\* last begin_compile that started an episode (returned with bundling
\* enabled), episode.since_begin the entries registered since the last
\* begin_compile that returned at all.

HistoryBegin ==
    /\ BeginCompile
    /\ episode' = [puts |-> IF last'.enabled /\ ~last'.raised THEN {} ELSE episode.puts,
                   overlapped |-> FALSE,
                   since_begin |-> IF ~last'.raised THEN {} ELSE episode.since_begin]
    /\ UNCHANGED <<workers, replay>>

HistoryPut(kernel_hash, device) ==
    /\ Put(kernel_hash, device)
    /\ episode' =
          IF Active(_entries) /\ ~last'.raised
          THEN LET entry == TritonBundleEntry(kernel_hash, device,
                                              environ["TRITON_CACHE_DIR"])
               IN  [episode EXCEPT !.puts = @ \cup {entry},
                                   !.since_begin = @ \cup {entry}]
          ELSE episode
    /\ UNCHANGED <<workers, replay>>

\* File systems for the history: dA/h1 holds two readable files, or is a
\* regular file.
HistoryFileSystems ==
    {f \in InitFileSystems :
        \/ isfile(f, <<"dA", "h1">>)
        \/ (isfile(f, <<"dA", "h1", "f1">>) /\ f[<<"dA", "h1", "f1">>].readable
            /\ isfile(f, <<"dA", "h1", "f2">>))}

InitHistory ==
    /\ config \in {"None", "True", "False"}
    /\ fbcode = TRUE
    /\ environ \in Environs
    /\ _entries = None
    /\ fs \in HistoryFileSystems
    /\ last = NoCall
    /\ workers = [w \in Workers |-> Idle]
    /\ episode = NoEpisode
    /\ replay = NoReplay

NextHistory ==
    \/ HistoryBegin
    \/ \E kernel_hash \in KernelHashes, device \in Devices :
            HistoryPut(kernel_hash, device)
    \/ Sequential(Collect)
    \/ \E e \in Environs : Sequential(SetEnv(e))
    \/ \E c \in {"None", "True", "False"} : Sequential(SetConfig(c))

SpecHistory == InitHistory /\ [][NextHistory]_vars

\* ------------------------------------------------------------------------
\* Specification of the registry and the file system together
\* ------------------------------------------------------------------------
\* One thread calls begin_compile, put and collect, and writes one bundle,
\* at any point of an episode, onto a file system that starts empty.

FrameBundles ==
    {<<TritonKernelArtifacts("h1", 0, <<TritonKernelArtifact("f1", "x")>>)>>,
     <<TritonKernelArtifacts("h2", 1, <<TritonKernelArtifact("f1", "x"),
                                        TritonKernelArtifact("f2", "y")>>)>>}

InitFrame ==
    /\ config \in {"True", "False"}
    /\ fbcode = TRUE
    /\ environ \in Environs
    /\ _entries = None
    /\ fs = EmptyFs
    /\ last = NoCall
    /\ workers = [w \in Workers |-> Idle]
    /\ episode = NoEpisode
    /\ replay \in {[bundle |-> b, fs |-> EmptyFs, environ |-> NoEnviron,
                     written |-> FALSE] : b \in FrameBundles}

NextFrame ==
    \/ Sequential(BeginCompile)
    \/ \E kernel_hash \in KernelHashes, device \in Devices :
            Sequential(Put(kernel_hash, device))
    \/ Sequential(Collect)
    \/ WriteBundle
    \/ \E e \in Environs : Sequential(SetEnv(e))
    \/ \E c \in {"True", "False"} : Sequential(SetConfig(c))

SpecFrame == InitFrame /\ [][NextFrame]_vars

\* ------------------------------------------------------------------------
\* Specification of is_enabled
\* ------------------------------------------------------------------------
\* A caller asks is_enabled() under every setting of the config flag, in
\* both builds, whatever the justknobs service would answer.

\* is_enabled(), when the justknobs service answers `justknobs` if asked.
IsEnabled ==
    \E justknobs \in BOOLEAN :
        /\ last' = Call("is_enabled", FALSE, is_enabled(justknobs), _entries,
                        <<justknobs>>, <<is_enabled(justknobs)>>)
        /\ UNCHANGED <<config, fbcode, environ, _entries, fs>>

InitEnabled ==
    /\ config = "None"
    /\ fbcode \in BOOLEAN
    /\ environ = NoEnviron
    /\ _entries = None
    /\ fs \in InitFileSystems
    /\ last = NoCall
    /\ workers = [w \in Workers |-> Idle]
    /\ episode = NoEpisode
    /\ replay = NoReplay

NextEnabled ==
    \/ Sequential(IsEnabled)
    \/ \E e \in Environs : Sequential(SetEnv(e))
    \/ \E c \in {"None", "True", "False"} : Sequential(SetConfig(c))

SpecEnabled == InitEnabled /\ [][NextEnabled]_vars

\* ------------------------------------------------------------------------
\* Vocabulary of the properties
\* ------------------------------------------------------------------------

\* The entry of the most recent put, under the environment it ran in.
LastEntry ==
    TritonBundleEntry(last.arg[1], last.arg[2], environ["TRITON_CACHE_DIR"])

\* The children of `path` that are regular files and can be read.
ReadableNames(path) ==
    {n \in FileNames : isfile(fs, join(path, n)) /\ fs[join(path, n)].readable}

\* The children of `path` that are no regular file or cannot be read.
FailingNames(path) ==
    {n \in FileNames : exists(fs, join(path, n))} \ ReadableNames(path)

\* The entry's path exists and holds at least one readable regular file.
Qualifies(entry) ==
    exists(fs, EntryPath(entry)) /\ ReadableNames(EntryPath(entry)) # {}

\* The entry's path exists and cannot be listed as a directory.
NotListable(entry) ==
    exists(fs, EntryPath(entry)) /\ ~isdir(fs, EntryPath(entry))

\* is_enabled() returns False whatever the justknobs service answers.
Disabled == ~is_enabled(TRUE) /\ ~is_enabled(FALSE)

\* The group is the one collect builds for the entry: its hash and device,
\* and exactly the readable regular files of its directory, each once and
\* with the payload the file holds.
GroupOf(group, entry) ==
    /\ group.kernel_hash = entry.kernel_hash
    /\ group.device = entry.device
    /\ Len(group.artifacts) = Cardinality(ReadableNames(EntryPath(entry)))
    /\ {group.artifacts[k].filename : k \in DOMAIN group.artifacts}
            = ReadableNames(EntryPath(entry))
    /\ \A k \in DOMAIN group.artifacts :
            group.artifacts[k].payload
                = fs[join(EntryPath(entry), group.artifacts[k].filename)].payload

\* ------------------------------------------------------------------------
\* Properties
\* ------------------------------------------------------------------------

\* C1: after every call of collect(), whatever the registry, the enablement
\* value and the file system, the registry is Uninitialized (and so an
\* immediately following collect() returns an empty list).
C1_CollectLeavesUninitialized ==
    last.op = "collect" => (~last.raised /\ _entries = None)

\* C2: with bundling enabled and the registry Active, begin_compile() fails
\* and leaves the registry as it was.
C2_BeginCompileOnActiveFails ==
    (last.op = "begin_compile" /\ last.enabled /\ Active(last.pre))
        => (last.raised /\ _entries = last.pre)

C2_Witness ==
    /\ last.op = "begin_compile" /\ last.enabled /\ last.raised
    /\ Active(_entries) /\ Len(_entries.keys) >= 1

\* C3: with bundling enabled and the registry Active, collect() returns
\* exactly one group for each registered entry whose path exists and holds
\* at least one readable regular file, no group for any other entry, and so
\* no group without artifacts.
C3_OneGroupPerReadableEntry ==
    (last.op = "collect" /\ last.enabled /\ Active(last.pre)) =>
        /\ ~last.raised
        /\ \A h \in KernelHashes, d \in Devices :
             Cardinality({j \in DOMAIN last.ret :
                            last.ret[j].kernel_hash = h /\ last.ret[j].device = d})
               = Cardinality({i \in DOMAIN last.pre.keys :
                            /\ last.pre.keys[i].kernel_hash = h
                            /\ last.pre.keys[i].device = d
                            /\ Qualifies(last.pre.keys[i])})
        /\ \A j \in DOMAIN last.ret : last.ret[j].artifacts # <<>>

\* C4: a child of an entry's directory that is no regular file or cannot be
\* read is left out of the entry's artifacts, every readable regular file of
\* the same directory and of every other entry is collected with its exact
\* payload, and such a child never makes collect() fail: collect() fails
\* only on an entry whose path cannot be listed.
C4_FailureIsolation ==
    (last.op = "collect" /\ last.enabled /\ Active(last.pre)) =>
        /\ last.raised => \E i \in DOMAIN last.pre.keys : NotListable(last.pre.keys[i])
        /\ ~last.raised =>
             \A i \in DOMAIN last.pre.keys :
                Qualifies(last.pre.keys[i]) =>
                    \E j \in DOMAIN last.ret : GroupOf(last.ret[j], last.pre.keys[i])

C4_Witness ==
    /\ last.op = "collect" /\ last.enabled /\ ~last.raised /\ Active(last.pre)
    /\ Len(last.ret) >= 2
    /\ \E i \in DOMAIN last.pre.keys :
         /\ FailingNames(EntryPath(last.pre.keys[i])) # {}
         /\ ReadableNames(EntryPath(last.pre.keys[i])) # {}

\* C5: put of an entry the Active registry already holds (a second put with
\* the same arguments under the same cache directory) leaves the registry
\* as it was, and the registry holds the entry exactly once.
C5_PutIdempotent ==
    (last.op = "put" /\ Active(last.pre) /\ ~last.raised) =>
        /\ Cardinality({i \in DOMAIN _entries.keys : _entries.keys[i] = LastEntry}) = 1
        /\ LastEntry \in Range(last.pre.keys) => _entries = last.pre

C5_Witness ==
    /\ last.op = "put" /\ Active(last.pre) /\ ~last.raised
    /\ LastEntry \in Range(last.pre.keys)
    /\ Len(_entries.keys) >= 2

\* C7: put on an Active registry with no cache directory in the environment
\* fails and inserts nothing.
C7_PutWithoutCacheDirFails ==
    (last.op = "put" /\ Active(last.pre) /\ ~HasCacheDir(environ))
        => (last.raised /\ _entries = last.pre)

C7_Witness ==
    /\ last.op = "put" /\ last.raised /\ ~HasCacheDir(environ)
    /\ Active(_entries) /\ Len(_entries.keys) >= 1

\* C8 as stated: with bundling disabled at the time of the call,
\* begin_compile() and put() change nothing and do not fail, in every
\* registry state.
C8_DisabledBeginAndPutNoOp ==
    ((last.op = "begin_compile" /\ ~last.enabled) \/ (last.op = "put" /\ Disabled))
        => (~last.raised /\ _entries = last.pre)

\* C8 as amended: with bundling disabled at the time of the call,
\* begin_compile() changes nothing and does not fail, in every registry
\* state; put() changes nothing and does not fail when the registry is
\* Uninitialized; on an Active registry put() does not read the enablement
\* value: it inserts its entry, or fails when the environment holds no cache
\* directory.
C8_DisabledBeginNoOpPutIgnoresFlag ==
    /\ (last.op = "begin_compile" /\ ~last.enabled)
          => (~last.raised /\ _entries = last.pre)
    /\ (last.op = "put" /\ ~Active(last.pre))
          => (~last.raised /\ _entries = None)
    /\ (last.op = "put" /\ Active(last.pre) /\ Disabled) =>
          IF HasCacheDir(environ)
          THEN ~last.raised /\ LastEntry \in Range(_entries.keys)
          ELSE last.raised /\ _entries = last.pre

C8_Witness ==
    /\ last.op = "begin_compile" /\ ~last.enabled /\ ~last.raised
    /\ Active(_entries) /\ Len(_entries.keys) >= 1

\* C9: with bundling disabled at the time of the call, collect() returns an
\* empty list and leaves the registry Uninitialized, also when the registry
\* was Active with entries whose directories hold readable files.
C9_DisabledCollectDiscards ==
    (last.op = "collect" /\ ~last.enabled)
        => (~last.raised /\ last.ret = <<>> /\ _entries = None)

C9_Witness ==
    /\ last.op = "collect" /\ ~last.enabled /\ last.ret = <<>> /\ _entries = None
    /\ Active(last.pre)
    /\ \E i \in DOMAIN last.pre.keys : Qualifies(last.pre.keys[i])

\* C6: when every put of an episode has returned, under every interleaving
\* of the workers' steps, the registry holds exactly the distinct entries
\* that were put, each once.
C6_ConcurrentPutsKeepEveryEntry ==
    (AllIdle /\ Active(_entries)) =>
        /\ Range(_entries.keys) = episode.puts
        /\ Len(_entries.keys) = Cardinality(episode.puts)

C6_Witness ==
    /\ AllIdle /\ Active(_entries) /\ episode.overlapped
    /\ Cardinality(episode.puts) >= 2
    /\ Range(_entries.keys) = episode.puts

\* C10: with bundling disabled, write_bundle_to_file_system(bundle) creates
\* no directory and creates or changes no file, for every bundle and every
\* setting of the cache directory.
C10_DisabledWriteChangesNothing ==
    (last.op = "write_bundle" /\ ~last.enabled) => (~last.raised /\ fs = replay.fs)

C10_Witness ==
    /\ last.op = "write_bundle" /\ ~last.enabled /\ fs = replay.fs
    /\ \E i \in DOMAIN replay.bundle :
         /\ replay.bundle[i].artifacts # <<>>
         /\ \A env \in Environs :
                write_bundle_to_file_system(TRUE, env, replay.fs, replay.bundle).fs
                    # replay.fs

\* The directory the claims name for a group written under environment
\* env: override_dir/kernel_hash, or cache_root/triton/kernel_hash/device.
TargetDirectory(env, group) ==
    IF HasCacheDir(env)
    THEN env["TRITON_CACHE_DIR"] \o <<group.kernel_hash>>
    ELSE cache_dir \o <<"triton", group.kernel_hash, str(group.device)>>

\* The file paths the claims name for the artifacts of a bundle.
TargetPaths(env, bundle) ==
    UNION {{TargetDirectory(env, bundle[i]) \o <<bundle[i].artifacts[k].filename>> :
                k \in DOMAIN bundle[i].artifacts} : i \in DOMAIN bundle}

\* The paths that hold a file the file system `before` did not hold, or held
\* with another content.
WrittenFiles(before, after) ==
    {p \in DOMAIN after :
        /\ after[p].kind = "file"
        /\ (p \notin DOMAIN before \/ before[p] # after[p])}

\* The paths that exist in `after` and did not exist in `before`.
CreatedPaths(before, after) == DOMAIN after \ DOMAIN before

\* C11: with bundling enabled, write_bundle_to_file_system writes files only
\* at override_dir/kernel_hash/filename when TRITON_CACHE_DIR is set and only
\* at cache_root/triton/kernel_hash/device/filename when it is not, creates
\* nothing but these files and the directories above them, and when it
\* returns every one of these paths holds a file.
C11_WritePaths ==
    (last.op = "write_bundle" /\ last.enabled) =>
        LET targets == TargetPaths(environ, replay.bundle) IN
        /\ WrittenFiles(replay.fs, fs) \subseteq targets
        /\ \A p \in CreatedPaths(replay.fs, fs) :
              \/ p \in targets
              \/ \E i \in DOMAIN replay.bundle :
                    p \in Ancestors(TargetDirectory(environ, replay.bundle[i]))
                            \cup {TargetDirectory(environ, replay.bundle[i])}
        /\ ~last.raised => \A p \in targets : isfile(fs, p)

C11_Witness ==
    /\ last.op = "write_bundle" /\ last.enabled /\ ~last.raised
    /\ ~HasCacheDir(environ)
    /\ Len(replay.bundle) = 2
    /\ replay.bundle[1].kernel_hash = replay.bundle[2].kernel_hash
    /\ replay.bundle[1].device # replay.bundle[2].device
    /\ Cardinality(WrittenFiles(replay.fs, fs)) >= 3

\* The artifacts of a group as a set of (filename, payload) pairs.
ArtifactSet(group) ==
    {<<group.artifacts[k].filename, group.artifacts[k].payload>> :
        k \in DOMAIN group.artifacts}

\* The same kernel_hash and device, and the same filenames, each once, with
\* the same payloads.
SameGroup(g1, g2) ==
    /\ g1.kernel_hash = g2.kernel_hash
    /\ g1.device = g2.device
    /\ ArtifactSet(g1) = ArtifactSet(g2)
    /\ Len(g1.artifacts) = Len(g2.artifacts)

\* C12: a bundle written onto an empty file system, with TRITON_CACHE_DIR
\* set or not, is returned by the collect() of a fresh episode whose entries
\* are exactly the entries that point at the directories written: every
\* group of the bundle is returned, and nothing else.
C12_RoundTrip ==
    (/\ replay.written /\ last.op = "collect" /\ Active(last.pre)
     /\ Range(last.pre.keys) = PointingEntries) =>
        /\ ~last.raised
        /\ \A i \in DOMAIN replay.bundle :
              \E j \in DOMAIN last.ret : SameGroup(last.ret[j], replay.bundle[i])
        /\ \A j \in DOMAIN last.ret :
              \E i \in DOMAIN replay.bundle : SameGroup(last.ret[j], replay.bundle[i])

\* The entries of the registry that collect returns a group for, in the
\* order of the registry.
QualifyingKeys(keys) == SelectSeq(keys, LAMBDA entry : Qualifies(entry))

\* C13: the groups collect() returns are in the order in which their entries
\* were first put: the i-th group is the group of the i-th entry of the
\* registry that has a group, every put leaves the entries already present
\* in their order and places a new entry after them, and a put of an entry
\* already present moves nothing.
C13_GroupsInInsertionOrder ==
    /\ (last.op = "collect" /\ last.enabled /\ ~last.raised /\ Active(last.pre)) =>
          /\ Len(last.ret) = Len(QualifyingKeys(last.pre.keys))
          /\ \A j \in DOMAIN last.ret :
                GroupOf(last.ret[j], QualifyingKeys(last.pre.keys)[j])
    /\ (last.op = "put" /\ ~last.raised /\ Active(last.pre)) =>
          /\ Len(_entries.keys) >= Len(last.pre.keys)
          /\ SubSeq(_entries.keys, 1, Len(last.pre.keys)) = last.pre.keys
          /\ _entries.keys \in {last.pre.keys, Append(last.pre.keys, LastEntry)}

C13_Witness ==
    /\ last.op = "collect" /\ last.enabled /\ ~last.raised /\ Active(last.pre)
    /\ Len(last.ret) = 2
    /\ last.ret[1].kernel_hash = "h2" /\ last.ret[2].kernel_hash = "h1"
    /\ last.pre.keys[1].kernel_hash = "h2"

\* C14: put(kernel_hash, device) on an Uninitialized registry does not fail
\* and leaves the registry Uninitialized, whatever the enablement value and
\* whether or not TRITON_CACHE_DIR is set; the registry is never Active
\* after a put unless it was Active before it.
C14_PutOnUninitializedNoOp ==
    /\ (last.op = "put" /\ ~Active(last.pre)) => (~last.raised /\ _entries = None)
    /\ (last.op = "put" /\ Active(_entries)) => Active(last.pre)

C14_Witness ==
    /\ last.op = "put" /\ ~Active(last.pre) /\ ~last.raised /\ _entries = None
    /\ is_enabled(FALSE)
    /\ ~HasCacheDir(environ)

\* C15: is_enabled() returns the config flag whenever the flag is set, True
\* or False, in both builds and whatever the justknobs service answers;
\* with the flag unset it returns True exactly when the build is fbcode and
\* the service answers True; and a call changes nothing of the config, the
\* environment, the registry and the file system.
C15_IsEnabledResolution ==
    /\ [](last.op = "is_enabled" =>
            /\ config = "True" => last.ret = <<TRUE>>
            /\ config = "False" => last.ret = <<FALSE>>
            /\ config = "None" => last.ret = <<fbcode /\ last.arg[1]>>)
    /\ [][last'.op = "is_enabled" =>
            UNCHANGED <<config, fbcode, environ, _entries, fs>>]_vars

C15_Witness ==
    /\ last.op = "is_enabled" /\ last.ret = <<TRUE>>
    /\ config = "True" /\ ~fbcode /\ last.arg = <<FALSE>>

\* The payloads the groups of kernel_hash and device give to filename.
PayloadsFor(bundle, kernel_hash, device, filename) ==
    UNION {{bundle[i].artifacts[k].payload :
                k \in {n \in DOMAIN bundle[i].artifacts :
                            bundle[i].artifacts[n].filename = filename}} :
           i \in {m \in DOMAIN bundle : /\ bundle[m].kernel_hash = kernel_hash
                                         /\ bundle[m].device = device}}

\* C16: with TRITON_CACHE_DIR unset, two groups of a bundle that differ in
\* kernel_hash or in device are written to different directories, and after
\* a write that returns every file of a group holds a payload that a group
\* of its own kernel_hash and device gave to its filename, never one of
\* another group.
C16_NoCollisionWithoutOverride ==
    (last.op = "write_bundle" /\ last.enabled /\ ~HasCacheDir(environ)) =>
        /\ \A i, j \in DOMAIN replay.bundle :
              (\/ replay.bundle[i].kernel_hash # replay.bundle[j].kernel_hash
               \/ replay.bundle[i].device # replay.bundle[j].device)
              => WrittenDirectory(environ, replay.bundle[i])
                    # WrittenDirectory(environ, replay.bundle[j])
        /\ ~last.raised =>
              \A i \in DOMAIN replay.bundle : \A k \in DOMAIN replay.bundle[i].artifacts :
                LET group == replay.bundle[i]
                    filename == group.artifacts[k].filename
                    filepath == join(WrittenDirectory(environ, group), filename)
                IN  /\ isfile(fs, filepath)
                    /\ fs[filepath].payload
                          \in PayloadsFor(replay.bundle, group.kernel_hash,
                                          group.device, filename)

C16_Witness ==
    /\ last.op = "write_bundle" /\ last.enabled /\ ~last.raised
    /\ ~HasCacheDir(environ)
    /\ Len(replay.bundle) = 2
    /\ replay.bundle[1].kernel_hash = replay.bundle[2].kernel_hash
    /\ replay.bundle[1].device # replay.bundle[2].device
    /\ replay.bundle[1].artifacts = <<TritonKernelArtifact("f1", "x")>>
    /\ replay.bundle[2].artifacts = <<TritonKernelArtifact("f1", "y")>>
    /\ fs[join(WrittenDirectory(environ, replay.bundle[1]), "f1")].payload = "x"
    /\ fs[join(WrittenDirectory(environ, replay.bundle[2]), "f1")].payload = "y"

\* The steps of write_bundle_to_file_system(bundle) in the order it takes
\* them: <<i, 0>> makes the directory of the i-th group, <<i, k>> writes the
\* k-th artifact of the i-th group.
Steps(bundle) ==
    UNION {{<<i, k>> : k \in 0..Len(bundle[i].artifacts)} : i \in DOMAIN bundle}

StepBefore(a, b) == a[1] < b[1] \/ (a[1] = b[1] /\ a[2] < b[2])

\* The path the claims name for a step: the group's directory, or the
\* artifact's file.
StepPath(env, bundle, step) ==
    IF step[2] = 0 THEN TargetDirectory(env, bundle[step[1]])
    ELSE TargetDirectory(env, bundle[step[1]])
            \o <<bundle[step[1]].artifacts[step[2]].filename>>

\* The steps that cannot succeed on the file system `before`: a directory to
\* make where the path or a path above it is a file, an artifact to write
\* where the path is a directory.
FailingSteps(before, env, bundle) ==
    {step \in Steps(bundle) :
        LET path == StepPath(env, bundle, step) IN
        IF step[2] = 0
        THEN \E q \in Ancestors(path) \cup {path} : exists(before, q) /\ ~isdir(before, q)
        ELSE isdir(before, path)}

\* The writes of artifacts that come before every failing step.
WritesDone(before, env, bundle) ==
    LET failing == FailingSteps(before, env, bundle) IN
    {step \in Steps(bundle) :
        /\ step[2] > 0
        /\ \A f \in failing : StepBefore(step, f)}

\* The payload of the last of the writes `done` that goes to `path`.
LastPayload(done, env, bundle, path) ==
    LET to == {step \in done : StepPath(env, bundle, step) = path}
        final == CHOOSE step \in to : \A other \in to : other = step \/ StepBefore(other, step)
    IN  bundle[final[1]].artifacts[final[2]].payload

\* C17: with bundling enabled, write_bundle_to_file_system returns normally
\* when nothing but directories stands at the directories it needs and
\* nothing but files at the files it writes; after it returns, every path
\* an artifact maps to holds the payload of the last artifact in bundle
\* order that maps to it, whatever it held before, and everything else the
\* file system held is as it was.
C17_LastWriterWins ==
    (last.op = "write_bundle" /\ last.enabled) =>
        /\ FailingSteps(replay.fs, environ, replay.bundle) = {} => ~last.raised
        /\ ~last.raised =>
              LET writes == {step \in Steps(replay.bundle) : step[2] > 0}
                  targets == TargetPaths(environ, replay.bundle)
              IN  /\ \A path \in targets :
                        /\ isfile(fs, path)
                        /\ fs[path].payload
                              = LastPayload(writes, environ, replay.bundle, path)
                  /\ \A path \in DOMAIN replay.fs \ targets :
                        path \in DOMAIN fs /\ fs[path] = replay.fs[path]

C17_Witness ==
    /\ last.op = "write_bundle" /\ last.enabled /\ ~last.raised
    /\ Len(replay.bundle) = 2
    /\ replay.bundle[1].artifacts # <<>> /\ replay.bundle[2].artifacts # <<>>
    /\ \E path \in TargetPaths(environ, replay.bundle) \cap DOMAIN replay.fs :
          /\ replay.fs[path].payload # fs[path].payload
          /\ StepPath(environ, replay.bundle, <<1, 1>>) = path
          /\ StepPath(environ, replay.bundle, <<2, 1>>) = path
          /\ replay.bundle[1].artifacts[1].payload # replay.bundle[2].artifacts[1].payload
    /\ \E path \in DOMAIN replay.fs \ TargetPaths(environ, replay.bundle) :
          isdir(fs, path)

\* C18: with bundling enabled, a directory that cannot be made or an
\* artifact that cannot be written makes write_bundle_to_file_system fail;
\* the artifacts before the first such step are written (every path they
\* map to holds the payload of the last of them), and no artifact after it
\* is: every other path holds what it held before the call, or nothing.
C18_WriteFailurePropagates ==
    (/\ last.op = "write_bundle" /\ last.enabled
     /\ FailingSteps(replay.fs, environ, replay.bundle) # {}) =>
        /\ last.raised
        /\ LET done == WritesDone(replay.fs, environ, replay.bundle) IN
            \A path \in TargetPaths(environ, replay.bundle) \cup DOMAIN replay.fs :
              IF \E step \in done : StepPath(environ, replay.bundle, step) = path
              THEN /\ isfile(fs, path)
                   /\ fs[path].payload = LastPayload(done, environ, replay.bundle, path)
              ELSE IF path \in DOMAIN replay.fs
              THEN path \in DOMAIN fs /\ fs[path] = replay.fs[path]
              ELSE path \notin DOMAIN fs

C18_Witness ==
    /\ last.op = "write_bundle" /\ last.enabled /\ last.raised
    /\ \E step \in WritesDone(replay.fs, environ, replay.bundle) :
          /\ StepPath(environ, replay.bundle, step) \notin DOMAIN replay.fs
          /\ isfile(fs, StepPath(environ, replay.bundle, step))
    /\ \E path \in TargetPaths(environ, replay.bundle) :
          path \notin DOMAIN fs

\* C19 as stated: every group collect() returns is the group of an entry put
\* after the most recent begin_compile() that returned normally.
C19_GroupsFromEntriesSinceBegin ==
    (last.op = "collect" /\ ~last.raised) =>
        \A j \in DOMAIN last.ret :
            \E entry \in episode.since_begin : GroupOf(last.ret[j], entry)

\* C19 as amended: every group collect() returns is the group of an entry
\* put after the most recent begin_compile() that returned normally with
\* bundling enabled, that is, that started an episode; a begin_compile()
\* called with bundling disabled returns normally and starts nothing.
C19_GroupsFromEntriesSinceEpisodeStart ==
    (last.op = "collect" /\ ~last.raised) =>
        \A j \in DOMAIN last.ret :
            \E entry \in episode.puts : GroupOf(last.ret[j], entry)

C19_Witness ==
    /\ last.op = "collect" /\ ~last.raised /\ Len(last.ret) = 2
    /\ episode.since_begin # episode.puts
    /\ episode.since_begin # {}

\* C20: a call of begin_compile, put or collect leaves every path of the
\* file system as it was (no file or directory created, changed or
\* deleted), and a call of write_bundle_to_file_system leaves the registry,
\* its state and its entries, as it was.
C20_FrameEffects ==
    [][/\ last'.op \in {"begin_compile", "put", "collect"} => fs' = fs
       /\ last'.op = "write_bundle" => _entries' = _entries]_vars

C20_Witness ==
    /\ last.op = "write_bundle" /\ last.enabled /\ ~last.raised
    /\ fs # replay.fs
    /\ Active(_entries) /\ Len(_entries.keys) = 2
    /\ \E i \in DOMAIN _entries.keys : Qualifies(_entries.keys[i])

====
